---- MODULE Spec2Model ----
(***************************************************************************)
(* A model of the easy_reed configuration registry: NameSpace (typed field *)
(* declarations), ConfigReader (environment-scoped resolution with a       *)
(* converter table) and Config / ConfigDict (the two-level registry).      *)
(*                                                                         *)
(* Python strings on which the code does character work (upper(), strip(), *)
(* split(), the parser's optionxform) are sequences of one-character       *)
(* strings.  Every Python object is a record [kind, val]; kind is the name *)
(* of the object's class.                                                  *)
(***************************************************************************)
EXTENDS Integers, Sequences, FiniteSets, TLC

(***************************************************************************)
(* Python strings                                                          *)
(***************************************************************************)
Lowers == <<"a","b","c","d","e","f","g","h","i","j","k","l","m",
            "n","o","p","q","r","s","t","u","v","w","x","y","z">>

Uppers == <<"A","B","C","D","E","F","G","H","I","J","K","L","M",
            "N","O","P","Q","R","S","T","U","V","W","X","Y","Z">>

Digits == <<"0","1","2","3","4","5","6","7","8","9">>

IndexIn(seq, c) == CHOOSE i \in DOMAIN seq : seq[i] = c

Occurs(seq, c) == \E i \in DOMAIN seq : seq[i] = c

\* str.upper() and str.lower(), one character
upper_char(c) == IF Occurs(Lowers, c) THEN Uppers[IndexIn(Lowers, c)] ELSE c

lower_char(c) == IF Occurs(Uppers, c) THEN Lowers[IndexIn(Uppers, c)] ELSE c

upper(s) == [i \in 1..Len(s) |-> upper_char(s[i])]

lower(s) == [i \in 1..Len(s) |-> lower_char(s[i])]

\* s[a:b] of Python with 0 <= a, b <= len(s), as 1-based positions a+1..b
Slice(s, a, b) == IF b <= a THEN <<>> ELSE SubSeq(s, a + 1, b)

IsSpace(c) == c = " "

RECURSIVE lstrip(_)
lstrip(s) == IF s # <<>> /\ IsSpace(Head(s)) THEN lstrip(Tail(s)) ELSE s

RECURSIVE rstrip(_)
rstrip(s) ==
    IF s # <<>> /\ IsSpace(s[Len(s)]) THEN rstrip(SubSeq(s, 1, Len(s) - 1)) ELSE s

\* str.strip()
strip(s) == rstrip(lstrip(s))

\* str.count(c) for a one-character c
RECURSIVE count(_, _)
count(s, c) ==
    IF s = <<>> THEN 0 ELSE (IF Head(s) = c THEN 1 ELSE 0) + count(Tail(s), c)

\* str.split(c) for a one-character c: always at least one piece
RECURSIVE split(_, _)
split(s, c) ==
    IF ~Occurs(s, c) THEN <<s>>
    ELSE LET p == CHOOSE i \in DOMAIN s :
                      s[i] = c /\ \A j \in 1..(i - 1) : s[j] # c
         IN  <<SubSeq(s, 1, p - 1)>> \o split(SubSeq(s, p + 1, Len(s)), c)

\* str.isdigit()
isdigit(s) == s # <<>> /\ \A i \in DOMAIN s : Occurs(Digits, s[i])

RECURSIVE DigitsValue(_)
DigitsValue(s) ==
    IF s = <<>> THEN 0
    ELSE 10 * DigitsValue(SubSeq(s, 1, Len(s) - 1)) + (IndexIn(Digits, s[Len(s)]) - 1)

(***************************************************************************)
(* Python objects                                                          *)
(***************************************************************************)
PyStr(s) == [kind |-> "str", val |-> s]

PyInt(n) == [kind |-> "int", val |-> n]

PyBool(b) == [kind |-> "bool", val |-> b]

PyFloat(n, d) == [kind |-> "float", val |-> <<n, d>>]

PyList(l) == [kind |-> "list", val |-> l]

PyDict(d) == [kind |-> "dict", val |-> d]

PyType(n) == [kind |-> "type", val |-> n]

PyFunction(n) == [kind |-> "function", val |-> n]

PyNone == [kind |-> "NoneType", val |-> <<>>]

\* the test suite's class Person(name, age)
Person(name, age) == [kind |-> "Person", val |-> <<name, age>>]

\* the outcome of a call: a returned object, or a raised exception
Return(v) == [exc |-> "none", why |-> "", ret |-> v]

Raise(e, why) == [exc |-> e, why |-> why, ret |-> PyNone]

\* isinstance(obj, typ) for typ a type object; bool is a subclass of int
isinstance(obj, typ) ==
    \/ obj.kind = typ.val
    \/ obj.kind = "bool" /\ typ.val = "int"
    \/ typ.val = "object"

\* isinstance(obj, Callable): functions and classes can be called
IsCallable(obj) == obj.kind \in {"function", "type"}

(***************************************************************************)
(* namespace.py: NameSpace.validate_entry                                  *)
(***************************************************************************)
\* validate_entry that looks at typ and default before the field name
validate_entry_type_first(field_name, typ, default) ==
    IF ~isinstance(typ, PyType("type"))
      THEN Raise("TypeError", "typ should be a type")
    ELSE IF ~isinstance(default, typ)
      THEN Raise("TypeError", "default should be of the type specified by typ")
    ELSE IF ~isinstance(field_name, PyType("str"))
      THEN Raise("TypeError", "a config field_name must be of type string")
    ELSE IF Len(field_name.val) = 0
      THEN Raise("ValueError", "a config field_name must not be empty")
    ELSE Return(PyNone)

validate_entry(field_name, typ, default) ==
    IF ~isinstance(field_name, PyType("str"))
      THEN Raise("TypeError", "a config field_name must be of type string")
    ELSE IF Len(field_name.val) = 0
      THEN Raise("ValueError", "a config field_name must not be empty")
    ELSE IF ~isinstance(typ, PyType("type"))
      THEN Raise("TypeError", "typ should be a type")
    ELSE IF ~isinstance(default, typ)
      THEN Raise("TypeError", "default should be of the type specified by typ")
    ELSE Return(PyNone)

(***************************************************************************)
(* config_reader.py: list_converter, and the converters the tests and the  *)
(* parser bring                                                            *)
(***************************************************************************)
\* my_list[index] = value.strip() for every element
strip_each(my_list) == [i \in 1..Len(my_list) |-> strip(my_list[i])]

list_converter(element) ==
    IF element.kind # "str"
      THEN Raise("TypeError", "element for list conversion must be of type string")
    ELSE LET value == strip(element.val) IN
         IF value = <<>>
           THEN Raise("IndexError", "string index out of range")
         ELSE IF value[1] # "[" \/ value[Len(value)] # "]"
           THEN Raise("ValueError", "The string representing the list must start with '[' and end with ']'")
         ELSE Return(PyList(strip_each(split(Slice(value, 1, Len(value) - 1), ","))))

\* test_config_reader.py: Person.parse_person
parse_person(person_string) ==
    IF ~isinstance(person_string, PyType("str"))
      THEN Raise("TypeError", "Attempted to parse a non string object")
    ELSE IF count(person_string.val, ":") # 1
      THEN Raise("ValueError", "a 'person string' must have exactly one ':' character")
    ELSE LET parse == split(person_string.val, ":") IN
         IF ~isdigit(parse[2])
           THEN Raise("ValueError", "The string after the ':' character in a person string must be an integer")
         ELSE Return(Person(parse[1], DigitsValue(parse[2])))

\* calling a registered handler with one string argument
Call(handler, arg) ==
    CASE handler = PyFunction("list_converter") -> list_converter(arg)
      [] handler = PyFunction("parse_person") -> parse_person(arg)
      [] OTHER -> Raise("TypeError", "object is not callable")

\* int(s) as ConfigParser.getint uses it: optional sign, decimal digits
int_conv(s) ==
    LET t == strip(s)
        body == IF t # <<>> /\ t[1] \in {"-", "+"} THEN Tail(t) ELSE t
    IN  IF isdigit(body)
          THEN Return(PyInt(IF t[1] = "-" THEN 0 - DigitsValue(body) ELSE DigitsValue(body)))
          ELSE Raise("ValueError", "invalid literal for int() with base 10")

\* float(s) as ConfigParser.getfloat uses it, for literals digits[.digits];
\* the value is the pair (numerator, power-of-ten denominator)
float_conv(s) ==
    LET t == strip(s)
        body == IF t # <<>> /\ t[1] \in {"-", "+"} THEN Tail(t) ELSE t
        parts == split(body, ".")
        sign == IF t # <<>> /\ t[1] = "-" THEN 0 - 1 ELSE 1
    IN  IF Len(parts) = 1 /\ isdigit(parts[1])
          THEN Return(PyFloat(sign * DigitsValue(parts[1]), 1))
        ELSE IF Len(parts) = 2 /\ isdigit(parts[1] \o parts[2])
          THEN Return(PyFloat(sign * DigitsValue(parts[1] \o parts[2]), 10 ^ Len(parts[2])))
        ELSE Raise("ValueError", "could not convert string to float")

\* RawConfigParser.BOOLEAN_STATES
TrueWords == {<<"1">>, <<"y","e","s">>, <<"t","r","u","e">>, <<"o","n">>}

FalseWords == {<<"0">>, <<"n","o">>, <<"f","a","l","s","e">>, <<"o","f","f">>}

\* RawConfigParser._convert_to_boolean
boolean_conv(s) ==
    IF lower(s) \in TrueWords THEN Return(PyBool(TRUE))
    ELSE IF lower(s) \in FalseWords THEN Return(PyBool(FALSE))
    ELSE Raise("ValueError", "Not a boolean")

(***************************************************************************)
(* The parser behind ConfigReader: configparser.ConfigParser(strict=True,  *)
(* converters={'list': list_converter}) as config_reader.py uses it        *)
(***************************************************************************)
\* a lookup that sees the section's own keys only
unify_values_section_only(parser, section) ==
    IF section \in DOMAIN parser.sections THEN parser.sections[section] ELSE <<>>

\* the mapping a lookup in `section` sees: the section's own keys over the
\* DEFAULT section's keys (the parser's ChainMap)
unify_values(parser, section) ==
    LET sectiondict == IF section \in DOMAIN parser.sections
                         THEN parser.sections[section] ELSE <<>>
    IN  [k \in DOMAIN sectiondict \cup DOMAIN parser.defaults |->
            IF k \in DOMAIN sectiondict THEN sectiondict[k] ELSE parser.defaults[k]]

FirstIndex(s, c) == CHOOSE i \in DOMAIN s : s[i] = c /\ \A j \in 1..(i - 1) : s[j] # c

\* BasicInterpolation._interpolate_some: %% is a percent sign, %(name)s the
\* value of `name` in the same mapping, any other % an error
RECURSIVE interpolate_some(_, _, _)
interpolate_some(rest, map, depth) ==
    IF depth > 10 THEN Raise("InterpolationDepthError", "recursion limit exceeded")
    ELSE IF ~Occurs(rest, "%") THEN Return(PyStr(rest))
    ELSE LET p == FirstIndex(rest, "%")
             pre == SubSeq(rest, 1, p - 1)
             r == SubSeq(rest, p, Len(rest))
         IN  IF Len(r) >= 2 /\ r[2] = "%"
               THEN LET k == interpolate_some(SubSeq(r, 3, Len(r)), map, depth)
                    IN  IF k.exc # "none" THEN k
                        ELSE Return(PyStr(pre \o <<"%">> \o k.ret.val))
             ELSE IF Len(r) >= 2 /\ r[2] = "("
               THEN IF ~(Occurs(r, ")") /\ FirstIndex(r, ")") > 3
                         /\ Len(r) > FirstIndex(r, ")") /\ r[FirstIndex(r, ")") + 1] = "s")
                      THEN Raise("InterpolationSyntaxError", "bad interpolation variable reference")
                    ELSE LET q == FirstIndex(r, ")")
                             var == lower(SubSeq(r, 3, q - 1))
                             after == SubSeq(r, q + 2, Len(r))
                         IN  IF var \notin DOMAIN map
                               THEN Raise("InterpolationMissingOptionError", "bad value substitution")
                             ELSE LET v == IF Occurs(map[var], "%")
                                             THEN interpolate_some(map[var], map, depth + 1)
                                             ELSE Return(PyStr(map[var]))
                                      k == interpolate_some(after, map, depth)
                                  IN  IF v.exc # "none" THEN v
                                      ELSE IF k.exc # "none" THEN k
                                      ELSE Return(PyStr(pre \o v.ret.val \o k.ret.val))
             ELSE Raise("InterpolationSyntaxError", "'%' must be followed by '%' or '('")

\* RawConfigParser.get(section, option) without a fallback: the option name
\* goes through optionxform (lower()) before the lookup
get_nofallback(parser, section, option) ==
    IF section # "DEFAULT" /\ section \notin DOMAIN parser.sections
      THEN Raise("NoSectionError", "No section")
    ELSE LET d == unify_values(parser, section)
             opt == lower(option)
         IN  IF opt \notin DOMAIN d THEN Raise("NoOptionError", "No option")
             ELSE interpolate_some(d[opt], d, 1)

\* RawConfigParser.get(section, option, fallback=fallback)
get(parser, section, option, fallback) ==
    LET r == get_nofallback(parser, section, option)
    IN  IF r.exc \in {"NoSectionError", "NoOptionError"} THEN Return(fallback) ELSE r

\* the conversion a getter applies to the string it has read
conv(parser, name, value) ==
    CASE name = "int" -> int_conv(value.val)
      [] name = "float" -> float_conv(value.val)
      [] name = "boolean" -> boolean_conv(value.val)
      [] OTHER -> Call(parser.converters[name], value)

\* a getter that hands back the string it has read, unconverted
get_conv_unconverted(parser, section, option, name, fallback) ==
    get(parser, section, option, fallback)

\* RawConfigParser._get_conv: the fallback is returned only for a missing
\* section or option; what the converter raises propagates
get_conv(parser, section, option, name, fallback) ==
    LET r == get_nofallback(parser, section, option)
    IN  IF r.exc \in {"NoSectionError", "NoOptionError"} THEN Return(fallback)
        ELSE IF r.exc # "none" THEN r
        ELSE conv(parser, name, r.ret)

\* calling a getter of the parser: get, getint, getfloat, getboolean, getlist,
\* or get<counter> of a registered handler; a getter is the name after "get"
getter(parser, name, section, option, fallback) ==
    IF name = "" THEN get(parser, section, option, fallback)
    ELSE get_conv(parser, section, option, name, fallback)

\* `key in parser`: the DEFAULT section is always there
parser_contains(parser, key) == key = "DEFAULT" \/ key \in DOMAIN parser.sections

\* RawConfigParser.read_file on the lines [section, key, value] of a file:
\* keys are stored lower-cased, values stripped; strict=True refuses a key
\* given twice in a section
RECURSIVE read_lines(_, _)
read_lines(parser, lines) ==
    IF lines = <<>> THEN Return(parser)
    ELSE LET l == Head(lines)
             k == lower(rstrip(l.key))
             v == strip(l.value)
             old == IF l.section = "DEFAULT" THEN parser.defaults
                    ELSE IF l.section \in DOMAIN parser.sections
                      THEN parser.sections[l.section] ELSE <<>>
             new == (k :> v) @@ old
         IN  IF k \in DOMAIN old THEN Raise("DuplicateOptionError", "option already exists")
             ELSE IF l.section = "DEFAULT"
               THEN read_lines([parser EXCEPT !.defaults = new], Tail(lines))
             ELSE read_lines([parser EXCEPT !.sections = (l.section :> new) @@ @],
                             Tail(lines))

\* ConfigParser(strict=True, converters={'list': list_converter})
ConfigParser ==
    [sections |-> <<>>, defaults |-> <<>>,
     converters |-> ("list" :> PyFunction("list_converter"))]

(***************************************************************************)
(* The process environment and the file system the program starts in       *)
(***************************************************************************)
s_test == <<"t","e","s","t">>
s_easy_reed == <<"e","a","s","y","_","r","e","e","d">>
s_LOG_LEVEL == <<"L","O","G","_","L","E","V","E","L">>
s_APP_ENVIRONMENT == <<"A","P","P","_","E","N","V","I","R","O","N","M","E","N","T">>
s_CONFIG_LOCATION == <<"C","O","N","F","I","G","_","L","O","C","A","T","I","O","N">>
s_LOG_LOCATION == <<"L","O","G","_","L","O","C","A","T","I","O","N">>

s_pytest == <<"p","y","t","e","s","t">>

s_test1 == <<"t","e","s","t","1">>

s_test3 == <<"t","e","s","t","3">>

s_default == <<"d","e","f","a","u","l","t">>

s_guts == <<"g","u","t","s">>

s_fail == <<"f","a","i","l">>

s_None == <<"N","o","n","e">>

s_Failure == <<"F","a","i","l","u","r","e">>

\* test/resources/properties_config.ini as the tests read it: a DEFAULT
\* section and one section per environment
properties_config ==
    <<
      [section |-> "DEFAULT", key |-> <<"t","e","s","t",".","d","e","f","a","u","l","t">>,
       value |-> <<"c","o","n","s","t","a","n","t">>],
      [section |-> "local", key |-> <<"t","e","s","t",".","T","E","S","T","1">>,
       value |-> <<"l","o","c","a","l","1">>],
      [section |-> "local", key |-> <<"t","e","s","t",".","t","e","s","t","2">>,
       value |-> <<"l","o","c","a","l","2">>],
      [section |-> "local", key |-> <<"p","y","t","e","s","t",".","t","e","s","t","1">>,
       value |-> <<"l","o","c","a","l","3">>],
      [section |-> "local", key |-> <<"p","y","t","e","s","t",".","t","e","s","t","2">>,
       value |-> <<"l","o","c","a","l","4">>],
      [section |-> "local", key |-> <<"t","e","s","t",".","g","u","t","s">>,
       value |-> <<"g","u","t","s",":","2","4">>],
      [section |-> "local", key |-> <<"t","e","s","t",".","c","a","s","c","a">>,
       value |-> <<"c","a","s","c","a",":","2","4">>],
      [section |-> "local", key |-> <<"t","e","s","t",".","b","a","d">>,
       value |-> <<"b","a","d">>],
      [section |-> "local", key |-> <<"t","e","s","t",".","l","i","s","t">>,
       value |-> <<"[","1",","," ","2",","," ","3","]">>],
      [section |-> "local", key |-> <<"t","e","s","t",".","b","a","d","l","i","s","t">>,
       value |-> <<"1",",","2",",","3","]">>],
      [section |-> "local", key |-> <<"t","e","s","t",".","p","o","r","t">>,
       value |-> <<"8","0">>],
      [section |-> "local", key |-> <<"t","e","s","t",".","b","a","d","p","o","r","t">>,
       value |-> <<"8","o">>],
      [section |-> "local", key |-> <<"t","e","s","t",".","p","c","t">>,
       value |-> <<"5","0","%">>],
      [section |-> "dev", key |-> <<"t","e","s","t",".","t","e","s","t","1">>,
       value |-> <<"d","e","v","1">>],
      [section |-> "dev", key |-> <<"t","e","s","t",".","t","e","s","t","2">>,
       value |-> <<"d","e","v","2">>],
      [section |-> "qa", key |-> <<"t","e","s","t",".","t","e","s","t","1">>,
       value |-> <<"q","a","1">>],
      [section |-> "qa", key |-> <<"t","e","s","t",".","t","e","s","t","2">>,
       value |-> <<"q","a","2">>],
      [section |-> "prod", key |-> <<"t","e","s","t",".","t","e","s","t","1">>,
       value |-> <<"p","r","o","d","1">>],
      [section |-> "prod", key |-> <<"t","e","s","t",".","t","e","s","t","2">>,
       value |-> <<"p","r","o","d","2">>]
    >>

TestConfigLocation == "test/resources/properties_config.ini"

\* the files that exist: path -> lines
FileSystem == (TestConfigLocation :> properties_config)

\* os.environ at start-up: the variables that are set, with their values
Environments ==
    { <<>>,
      ("APP_ENVIRONMENT" :> "local") @@ ("CONFIG_LOCATION" :> TestConfigLocation),
      ("APP_ENVIRONMENT" :> "dev") @@ ("CONFIG_LOCATION" :> TestConfigLocation),
      ("APP_ENVIRONMENT" :> "qa") @@ ("CONFIG_LOCATION" :> TestConfigLocation),
      ("APP_ENVIRONMENT" :> "prod") @@ ("CONFIG_LOCATION" :> TestConfigLocation),
      ("APP_ENVIRONMENT" :> "none") @@ ("CONFIG_LOCATION" :> TestConfigLocation),
      ("APP_ENVIRONMENT" :> "local") @@ ("CONFIG_LOCATION" :> "None"),
      ("CONFIG_LOCATION" :> TestConfigLocation) @@ ("LOG_LEVEL" :> "test") }

\* the start-up environments where the registry is what is studied
ConfigEnvironments ==
    { e \in Environments :
        /\ "APP_ENVIRONMENT" \in DOMAIN e /\ e["APP_ENVIRONMENT"] \in {"local", "dev", "none"}
        /\ "CONFIG_LOCATION" \in DOMAIN e /\ e["CONFIG_LOCATION"] = TestConfigLocation }

\* every subset of the three variables the program reads, each with a value
\* the tests give it or a value the program knows
EnvironmentValues ==
    [LOG_LEVEL |-> {"test", "INFO"},
     APP_ENVIRONMENT |-> {"test", "dev"},
     CONFIG_LOCATION |-> {"test", TestConfigLocation}]

AllEnvironments ==
    { e \in UNION { [S -> UNION {EnvironmentValues[k] : k \in DOMAIN EnvironmentValues}] :
                      S \in SUBSET DOMAIN EnvironmentValues } :
        \A k \in DOMAIN e : e[k] \in EnvironmentValues[k] }

\* the level names logging.Logger.setLevel accepts
LogLevels == {"CRITICAL", "FATAL", "ERROR", "WARN", "WARNING", "INFO", "DEBUG", "NOTSET"}

(***************************************************************************)
(* environment.py: Environment                                             *)
(***************************************************************************)
\* __init__ that falls back to the default level name when setLevel refuses
\* the one it has read
Environment_resets_log_level(environ) ==
    [_log_level |-> IF "LOG_LEVEL" \in DOMAIN environ /\ environ["LOG_LEVEL"] \in LogLevels
                      THEN environ["LOG_LEVEL"] ELSE "DEBUG",
     _app_environment |-> IF "APP_ENVIRONMENT" \in DOMAIN environ
                            THEN environ["APP_ENVIRONMENT"] ELSE "local",
     _app_config_location |-> IF "CONFIG_LOCATION" \in DOMAIN environ
                                THEN environ["CONFIG_LOCATION"] ELSE "properties_config.ini"]

_retrieve_key(environ, env_key, default) ==
    IF env_key \in DOMAIN environ THEN environ[env_key] ELSE default

Environment(environ) ==
    [_log_level |-> _retrieve_key(environ, "LOG_LEVEL", "DEBUG"),
     _app_environment |-> _retrieve_key(environ, "APP_ENVIRONMENT", "local"),
     _app_config_location |->
         _retrieve_key(environ, "CONFIG_LOCATION", "properties_config.ini")]

(***************************************************************************)
(* config_reader.py: ConfigReader                                          *)
(***************************************************************************)
\* a converter table that reads an int with the parser's plain get
BuiltinConverters_int_unconverted ==
    [t \in {"list", "int", "float", "bool", "str"} |->
        CASE t = "list" -> "list"
          [] t = "int" -> ""
          [] t = "float" -> "float"
          [] t = "bool" -> "boolean"
          [] t = "str" -> ""]

\* the built-in converter table of ConfigReader.__init__
BuiltinConverters ==
    [t \in {"list", "int", "float", "bool", "str"} |->
        CASE t = "list" -> "list"
          [] t = "int" -> "int"
          [] t = "float" -> "float"
          [] t = "bool" -> "boolean"
          [] t = "str" -> ""]

\* __init__ that keeps the reported environment when the file has no such section
ConfigReader_keeps_environment(environment) ==
    LET loaded == IF environment._app_config_location \notin DOMAIN FileSystem
                    THEN Return(ConfigParser)
                    ELSE read_lines(ConfigParser,
                                    FileSystem[environment._app_config_location])
    IN  IF loaded.exc # "none" THEN loaded
        ELSE Return([_app_environment |-> environment._app_environment,
                     _configparser |-> loaded.ret,
                     _converters |-> BuiltinConverters,
                     _counter |-> 0])

\* __init__ that opens the file without asking whether it exists
ConfigReader_opens_unchecked(environment) ==
    IF environment._app_config_location \notin DOMAIN FileSystem
      THEN Raise("FileNotFoundError", "No such file or directory")
    ELSE LET loaded == read_lines(ConfigParser,
                                  FileSystem[environment._app_config_location])
         IN  IF loaded.exc # "none" THEN loaded
             ELSE Return(
               [_app_environment |->
                    IF ~parser_contains(loaded.ret, environment._app_environment)
                      THEN "DEFAULT" ELSE environment._app_environment,
                _configparser |-> loaded.ret,
                _converters |-> BuiltinConverters,
                _counter |-> 0])

\* ConfigReader.__init__: the reader, or the exception reading the file raised
ConfigReader(environment) ==
    LET loaded == IF environment._app_config_location \notin DOMAIN FileSystem
                    THEN Return(ConfigParser)
                    ELSE read_lines(ConfigParser,
                                    FileSystem[environment._app_config_location])
    IN  IF loaded.exc # "none" THEN loaded
        ELSE Return(
          [_app_environment |->
               IF ~parser_contains(loaded.ret, environment._app_environment)
                 THEN "DEFAULT" ELSE environment._app_environment,
           _configparser |-> loaded.ret,
           _converters |-> BuiltinConverters,
           _counter |-> 0])

\* read_field without the try/except around the getter
read_field_propagates(reader, field_name, typ, default) ==
    LET valid == validate_entry(field_name, typ, default) IN
    IF valid.exc # "none" THEN valid
    ELSE IF typ.val \notin DOMAIN reader._converters
      THEN Raise("TypeError", "ERROR: No handler exists to convert strings into type")
    ELSE getter(reader._configparser, reader._converters[typ.val],
                reader._app_environment, field_name.val, default)

\* read_field that calls the getter without fallback=default
read_field_none_fallback(reader, field_name, typ, default) ==
    LET valid == validate_entry(field_name, typ, default) IN
    IF valid.exc # "none" THEN valid
    ELSE IF typ.val \notin DOMAIN reader._converters
      THEN Raise("TypeError", "ERROR: No handler exists to convert strings into type")
    ELSE LET result == getter(reader._configparser, reader._converters[typ.val],
                              reader._app_environment, field_name.val, PyNone)
         IN  IF result.exc = "none" THEN result ELSE Return(default)

\* read_field that answers a type without a converter with the default
read_field_defaults_unhandled(reader, field_name, typ, default) ==
    LET valid == validate_entry(field_name, typ, default) IN
    IF valid.exc # "none" THEN valid
    ELSE IF typ.val \notin DOMAIN reader._converters THEN Return(default)
    ELSE LET result == getter(reader._configparser, reader._converters[typ.val],
                              reader._app_environment, field_name.val, default)
         IN  IF result.exc = "none" THEN result ELSE Return(default)

\* read_field without the call of NameSpace.validate_entry: a field name
\* that is no string fails inside the try block and gives the default
read_field_unvalidated(reader, field_name, typ, default) ==
    IF typ.val \notin DOMAIN reader._converters
      THEN Raise("TypeError", "ERROR: No handler exists to convert strings into type")
    ELSE IF field_name.kind # "str" THEN Return(default)
    ELSE LET result == getter(reader._configparser, reader._converters[typ.val],
                              reader._app_environment, field_name.val, default)
         IN  IF result.exc = "none" THEN result ELSE Return(default)

\* ConfigReader.read_field
read_field(reader, field_name, typ, default) ==
    LET valid == validate_entry(field_name, typ, default) IN
    IF valid.exc # "none" THEN valid
    ELSE IF typ.val \notin DOMAIN reader._converters
      THEN Raise("TypeError", "ERROR: No handler exists to convert strings into type")
    ELSE LET result == getter(reader._configparser, reader._converters[typ.val],
                              reader._app_environment, field_name.val, default)
         IN  IF result.exc = "none" THEN result ELSE Return(default)

\* add_handler without the check for an existing converter
add_handler_replaces(reader, typ, handler) ==
    IF ~isinstance(typ, PyType("type"))
      THEN [out |-> Raise("TypeError", "the typ parameter must specify the type that the handler Converts to"),
            reader |-> reader]
    ELSE IF ~IsCallable(handler)
      THEN [out |-> Raise("TypeError", "the handler parameter must be a Callable"),
            reader |-> reader]
    ELSE LET name == ToString(reader._counter) IN
         [out |-> Return([kind |-> "method", val |-> name]),
          reader |-> [reader EXCEPT
              !._configparser.converters = (name :> handler) @@ @,
              !._converters = (typ.val :> name) @@ @,
              !._counter = @ + 1]]

\* add_handler that asks whether the handler is callable before it looks for
\* an existing converter
add_handler_callable_first(reader, typ, handler) ==
    IF ~isinstance(typ, PyType("type"))
      THEN [out |-> Raise("TypeError", "the typ parameter must specify the type that the handler Converts to"),
            reader |-> reader]
    ELSE IF ~IsCallable(handler)
      THEN [out |-> Raise("TypeError", "the handler parameter must be a Callable"),
            reader |-> reader]
    ELSE IF typ.val \in DOMAIN reader._converters
      THEN [out |-> Raise("ValueError", "A handler for type already exists inside of the ConfigReader"),
            reader |-> reader]
    ELSE LET name == ToString(reader._counter) IN
         [out |-> Return([kind |-> "method", val |-> name]),
          reader |-> [reader EXCEPT
              !._configparser.converters = (name :> handler) @@ @,
              !._converters = (typ.val :> name) @@ @,
              !._counter = @ + 1]]

\* ConfigReader.add_handler: the outcome, and the reader afterwards
add_handler(reader, typ, handler) ==
    IF ~isinstance(typ, PyType("type"))
      THEN [out |-> Raise("TypeError", "the typ parameter must specify the type that the handler Converts to"),
            reader |-> reader]
    ELSE IF typ.val \in DOMAIN reader._converters
      THEN [out |-> Raise("ValueError", "A handler for type already exists inside of the ConfigReader"),
            reader |-> reader]
    ELSE IF ~IsCallable(handler)
      THEN [out |-> Raise("TypeError", "the handler parameter must be a Callable"),
            reader |-> reader]
    ELSE LET name == ToString(reader._counter) IN
         [out |-> Return([kind |-> "method", val |-> name]),
          reader |-> [reader EXCEPT
              !._configparser.converters = (name :> handler) @@ @,
              !._converters = (typ.val :> name) @@ @,
              !._counter = @ + 1]]

(***************************************************************************)
(* namespace.py: NameSpace                                                 *)
(***************************************************************************)
\* NameSpace.__init__
NameSpace(name) == [name |-> name, entries |-> <<>>]

\* NameSpace.has_field
has_field(ns, field_name) ==
    LET search == upper(field_name.val)
    IN  \E i \in DOMAIN ns.entries : ns.entries[i][1].val = search

\* add_entry that replaces the entry of a field name it already holds
add_entry_replaces(ns, field_name, typ, default) ==
    LET valid == validate_entry(field_name, typ, default)
        entry == <<PyStr(upper(field_name.val)), typ, default>>
    IN  IF valid.exc # "none" THEN [out |-> valid, ns |-> ns]
        ELSE IF has_field(ns, field_name)
          THEN [out |-> Return([kind |-> "tuple", val |-> entry]),
                ns |-> [ns EXCEPT !.entries =
                          [i \in DOMAIN @ |->
                              IF @[i][1].val = upper(field_name.val) THEN entry ELSE @[i]]]]
        ELSE [out |-> Return([kind |-> "tuple", val |-> entry]),
              ns |-> [ns EXCEPT !.entries = Append(@, entry)]]

\* add_entry that stores the field name as it was given
add_entry_keeps_case(ns, field_name, typ, default) ==
    LET valid == validate_entry(field_name, typ, default) IN
    IF valid.exc # "none" THEN [out |-> valid, ns |-> ns]
    ELSE IF has_field(ns, field_name)
      THEN [out |-> Raise("ValueError", "config field already exists inside of namespace"),
            ns |-> ns]
    ELSE LET entry == <<PyStr(field_name.val), typ, default>>
         IN  [out |-> Return([kind |-> "tuple", val |-> entry]),
              ns |-> [ns EXCEPT !.entries = Append(@, entry)]]

\* NameSpace.add_entry: the outcome, and the namespace afterwards
add_entry(ns, field_name, typ, default) ==
    LET valid == validate_entry(field_name, typ, default) IN
    IF valid.exc # "none" THEN [out |-> valid, ns |-> ns]
    ELSE IF has_field(ns, field_name)
      THEN [out |-> Raise("ValueError", "config field already exists inside of namespace"),
            ns |-> ns]
    ELSE LET entry == <<PyStr(upper(field_name.val)), typ, default>>
         IN  [out |-> Return([kind |-> "tuple", val |-> entry]),
              ns |-> [ns EXCEPT !.entries = Append(@, entry)]]

(***************************************************************************)
(* config_object.py: Config and ConfigDict                                 *)
(***************************************************************************)
\* the key without the namespace prefix
field_key_bare(name, entry) == entry[1]

\* f"{namespace.get_name()}.{entry[0]}"
field_key(name, entry) == PyStr(name \o <<".">> \o entry[1].val)

\* the loop of Config.add_namespace over the entries still to read: each
\* read_field result is stored before the next entry is read, and an
\* exception ends the loop with what has been stored so far
RECURSIVE read_entries(_, _, _, _, _)
read_entries(config, reader, name, entries, reads) ==
    IF entries = <<>> THEN [out |-> Return(PyNone), config |-> config, reads |-> reads]
    ELSE LET entry == Head(entries)
             r == read_field(reader, field_key(name, entry), entry[2], entry[3])
         IN  IF r.exc # "none"
               THEN [out |-> r, config |-> config, reads |-> reads + 1]
               ELSE read_entries(
                      [config EXCEPT ![name] = (entry[1].val :> r.ret) @@ @],
                      reader, name, Tail(entries), reads + 1)

\* add_namespace without the duplicate-namespace check
add_namespace_overwrites(config, reader, ns) ==
    read_entries((ns.name :> <<>>) @@ config, reader, ns.name, ns.entries, 0)

\* Config.add_namespace: the outcome, the registry afterwards and the number
\* of read_field calls made
add_namespace(config, reader, ns) ==
    IF ns.name \in DOMAIN config
      THEN [out |-> Raise("ValueError", "ERROR - namespace already exists inside of the config dictionary"),
            config |-> config, reads |-> 0]
    ELSE read_entries((ns.name :> <<>>) @@ config, reader, ns.name, ns.entries, 0)

\* Config.__getitem__: the ConfigDict of a namespace, by its exact name
Config_getitem(config, namespace) ==
    IF namespace \notin DOMAIN config
      THEN Raise("KeyError", "is not a namespace in the Config dictionary")
    ELSE Return(PyDict(config[namespace]))

\* ConfigDict.__getitem__ that looks the key up as it was given
ConfigDict_getitem_exact(fields, arg) ==
    IF arg \notin DOMAIN fields
      THEN Raise("KeyError", "is missing from the config")
    ELSE Return(fields[arg])

\* ConfigDict.__getitem__: the value of a field, by its upper-cased name
ConfigDict_getitem(fields, arg) ==
    LET field == upper(arg)
    IN  IF field \notin DOMAIN fields
          THEN Raise("KeyError", "is missing from the config")
        ELSE Return(fields[field])

\* an item assignment that is ignored without an error
setitem_ignores(key, value) == Return(PyNone)

\* Config.__setitem__ and ConfigDict.__setitem__
setitem(key, value) ==
    Raise("ValueError", "The easy_reed Config object does not allow developers to set config fields directly in code")

(***************************************************************************)
(* The calls a program makes                                               *)
(***************************************************************************)
\* the most entries a NameSpace of the model is given
MaxEntries == 2

NamespaceNames == {s_test, s_pytest}

\* (field_name, typ, default) of the add_entry calls
EntryInputs ==
    { <<PyStr(s_test1), PyType("str"), PyStr(s_fail)>>,
      <<PyStr(upper(s_test1)), PyType("str"), PyStr(s_fail)>>,
      <<PyStr(s_guts), PyType("Person"), Person(s_None, -1)>>,
      <<PyStr(s_test3), PyType("int"), PyStr(s_fail)>> }

\* the add_entry calls and NameSpace names where the reader is what is studied
ReaderEntryInputs == { <<PyStr(s_test1), PyType("str"), PyStr(s_fail)>> }

ReaderNamespaceNames == {s_test}

\* the direct read_field calls where the registry is what is studied
ConfigReadInputs ==
    { <<PyStr(<<"t","e","s","t",".","t","e","s","t","1">>), PyType("str"), PyStr(s_fail)>>,
      <<PyStr(<<"t","e","s","t",".","g","u","t","s">>), PyType("Person"), Person(s_None, -1)>> }

\* (field_name, typ, default) of the direct read_field calls
ReadInputs ==
    { <<PyStr(FIELD), PyType("str"), PyStr(s_fail)>> :
          FIELD \in {<<"t","e","s","t",".","t","e","s","t","1">>, <<"t","e","s","t",".","d","e","f","a","u","l","t">>, <<"t","e","s","t",".","t","e","s","t","3">>, <<"t","e","s","t",".","p","c","t">>} }
    \cup
    { <<PyStr(<<"t","e","s","t",".","g","u","t","s">>), PyType("Person"), Person(s_None, -1)>>,
      <<PyStr(<<"t","e","s","t",".","b","a","d">>), PyType("Person"), Person(s_Failure, -1)>>,
      <<PyStr(<<"t","e","s","t",".","l","i","s","t">>), PyType("list"), PyList(<<>>)>>,
      <<PyStr(<<"t","e","s","t",".","b","a","d","l","i","s","t">>), PyType("list"), PyList(<<>>)>>,
      <<PyStr(<<"t","e","s","t",".","p","o","r","t">>), PyType("int"), PyInt(0)>>,
      <<PyStr(<<"t","e","s","t",".","b","a","d","p","o","r","t">>), PyType("int"), PyInt(0)>>,
      <<PyStr(<<"b","a","d">>), PyType("dict"), PyDict(<<>>)>>,
      <<PyStr(<<"t","e","s","t",".","d","e","f","a","u","l","t">>), PyType("int"), PyInt(0)>>,
      <<PyStr(<<>>), PyType("str"), PyStr(s_fail)>>,
      <<PyInt(1), PyType("str"), PyStr(s_fail)>>,
      <<PyStr(<<"t","e","s","t",".","t","e","s","t","1">>), PyStr(<<"s","t","r">>), PyStr(s_fail)>>,
      <<PyStr(<<"t","e","s","t",".","t","e","s","t","1">>), PyType("int"), PyStr(s_fail)>>,
      <<PyStr(<<"b","a","d">>), PyType("dict"), PyStr(s_fail)>> }

\* (field_name, typ, default) of the add_entry calls where the NameSpace is
\* what is studied: field names in several letter cases, defaults that are
\* instances of a subclass, and arguments that break one or more rules
NameSpaceEntryInputs ==
    { <<PyStr(s_test1), PyType("str"), PyStr(s_fail)>>,
      <<PyStr(upper(s_test1)), PyType("str"), PyStr(s_fail)>>,
      <<PyStr(<<"T","e","s","t","1">>), PyType("int"), PyInt(0)>>,
      <<PyStr(s_guts), PyType("Person"), Person(s_None, -1)>>,
      <<PyStr(<<"f","l","a","g">>), PyType("int"), PyBool(TRUE)>>,
      <<PyStr(s_test1), PyType("int"), PyStr(s_fail)>>,
      <<PyInt(1), PyType("str"), PyStr(s_fail)>>,
      <<PyStr(<<>>), PyType("str"), PyStr(s_fail)>>,
      <<PyStr(s_test3), PyStr(<<"s","t","r">>), PyStr(s_fail)>>,
      <<PyStr(s_test3), PyType("int"), PyStr(s_fail)>>,
      <<PyInt(1), PyStr(<<"s","t","r">>), PyInt(0)>>,
      <<PyStr(<<>>), PyStr(<<"s","t","r">>), PyInt(0)>>,
      <<PyStr(s_test3), PyStr(<<"s","t","r">>), PyInt(0)>> }

\* (typ, handler) of the add_handler calls
HandlerInputs ==
    { <<PyType("Person"), PyFunction("parse_person")>>,
      <<PyStr(<<"P","e","r","s","o","n">>), PyFunction("parse_person")>>,
      <<PyType("Person"), PyStr(s_None)>>,
      <<PyType("str"), PyFunction("parse_person")>> }

\* the add_handler calls where the converter table is what is studied: a
\* second converter for a custom type, and arguments that break two rules
ReaderHandlerInputs ==
    HandlerInputs \cup
    { <<PyType("Person"), PyFunction("list_converter")>>,
      <<PyType("int"), PyStr(s_None)>>,
      <<PyStr(<<"P","e","r","s","o","n">>), PyStr(s_None)>> }

\* the read_field calls that go with them
HandlerReadInputs ==
    { <<PyStr(<<"t","e","s","t",".","g","u","t","s">>), PyType("Person"), Person(s_None, -1)>>,
      <<PyStr(<<"t","e","s","t",".","c","a","s","c","a">>), PyType("Person"), Person(s_None, -1)>>,
      <<PyStr(<<"t","e","s","t",".","b","a","d">>), PyType("Person"), Person(s_Failure, -1)>>,
      <<PyStr(<<"t","e","s","t",".","p","c","t">>), PyType("Person"), Person(s_None, -1)>>,
      <<PyStr(<<"t","e","s","t",".","l","i","s","t">>), PyType("Person"), Person(s_None, -1)>>,
      <<PyStr(<<"t","e","s","t",".","t","e","s","t","3">>), PyType("Person"), Person(s_None, -1)>>,
      <<PyStr(<<"t","e","s","t",".","p","o","r","t">>), PyType("int"), PyInt(0)>> }

\* the namespace names, field names and values of lookups and item assignments
LookupNames == NamespaceNames \cup {upper(s_test)}

LookupFields == {s_test1, upper(s_test1), s_guts, s_test3}

AssignedValues == {PyStr(s_fail), PyInt(0)}

\* the add_entry calls that go with them
RegistryEntryInputs ==
    ReaderEntryInputs \cup { <<PyStr(s_guts), PyType("Person"), Person(s_None, -1)>> }

\* namespace names and field names with the separator '.' or in another
\* letter case, where the lookup keys are what is studied
KeyNamespaceNames == {s_test, upper(s_test), <<"t","e","s","t",".","A">>}

KeyEntryInputs ==
    { <<PyStr(s_test1), PyType("str"), PyStr(s_fail)>>,
      <<PyStr(<<"a",".","t","e","s","t","1">>), PyType("str"), PyStr(s_fail)>> }

\* the namespaces and fields a caller of the package-level registry declares
PackageNamespaceNames == {s_easy_reed, s_test}

PackageEntryInputs ==
    { <<PyStr(s_test1), PyType("str"), PyStr(s_fail)>>,
      <<PyStr(s_LOG_LEVEL), PyType("str"), PyStr(s_fail)>> }

\* the add_entry calls where the types of the stored values are what is
\* studied: fields of built-in types and of a type that needs a handler
TypeEntryInputs ==
    { <<PyStr(s_test1), PyType("str"), PyStr(s_fail)>>,
      <<PyStr(s_guts), PyType("Person"), Person(s_None, -1)>>,
      <<PyStr(<<"l","i","s","t">>), PyType("Person"), Person(s_None, -1)>>,
      <<PyStr(<<"p","o","r","t">>), PyType("int"), PyInt(0)>> }

\* the longest string handed to list_converter
MaxLen == 3

\* the characters of those strings
ListChars == {"[", "]", ",", " ", "1"}

\* every string of at most n characters of ListChars
RECURSIVE StringsUpTo(_)
StringsUpTo(n) ==
    IF n = 0 THEN {<<>>}
    ELSE LET shorter == StringsUpTo(n - 1)
         IN  shorter \cup {Append(t, c) : t \in shorter, c \in ListChars}

\* the list literal of the tests' file, and variants of it
ListLiterals ==
    { <<"[","1",","," ","2",","," ","3","]">>,
      <<" ","[","1",",","2",","," ","3"," ","]"," ">>,
      <<"[","1",",",",","3","]">> }

ListInputs == {PyStr(t) : t \in StringsUpTo(MaxLen) \cup ListLiterals}

VARIABLES
    os_environ,      \* the process environment
    pc,              \* "new" before Config() has run, "ready" after
    _environment,    \* Config._environment
    _config,         \* Config._config: namespace name -> field -> value
    _config_reader,  \* Config._config_reader
    namespace,       \* the NameSpace object the caller is building
    reader,          \* a ConfigReader the caller constructs for itself
    last             \* the last call: its name, arguments and outcome

vars == <<os_environ, pc, _environment, _config, _config_reader, namespace, reader, last>>

\* nothing constructed yet
Absent == <<>>

Called(op, args, out, reads) ==
    [op |-> op, args |-> args, exc |-> out.exc, why |-> out.why, ret |-> out.ret,
     reads |-> reads]

Start ==
    /\ pc = "new"
    /\ _environment = Absent
    /\ _config = Absent
    /\ _config_reader = Absent
    /\ namespace = Absent
    /\ reader = Absent
    /\ last = Called("start", <<>>, Return(PyNone), 0)

Init == os_environ \in ConfigEnvironments /\ Start

InitReader == os_environ \in Environments /\ Start

\* config = Config()
Config__init__ ==
    /\ pc = "new"
    /\ LET environment == Environment(os_environ)
           made == ConfigReader(environment)
       IN  IF made.exc # "none"
             THEN /\ last' = Called("Config", <<>>, made, 0)
                  /\ UNCHANGED <<pc, _environment, _config, _config_reader>>
             ELSE /\ pc' = "ready"
                  /\ _environment' = environment
                  /\ _config' = <<>>
                  /\ _config_reader' = made.ret
                  /\ last' = Called("Config", <<>>, Return(PyNone), 0)
    /\ UNCHANGED <<os_environ, reader, namespace>>

\* namespace = NameSpace(name)
NameSpace__init__(name) ==
    /\ pc = "ready"
    /\ namespace' = NameSpace(name)
    /\ last' = Called("NameSpace", <<PyStr(name)>>, Return(PyNone), 0)
    /\ UNCHANGED <<os_environ, reader, pc, _environment, _config, _config_reader>>

\* namespace.add_entry(field_name, typ, default)
AddEntry(field_name, typ, default) ==
    /\ namespace # Absent
    /\ Len(namespace.entries) < MaxEntries
    /\ LET r == add_entry(namespace, field_name, typ, default)
       IN  /\ namespace' = r.ns
           /\ last' = Called("add_entry", <<field_name, typ, default>>, r.out, 0)
    /\ UNCHANGED <<os_environ, reader, pc, _environment, _config, _config_reader>>

\* config.add_namespace(namespace)
AddNamespace ==
    /\ pc = "ready"
    /\ namespace # Absent
    /\ LET r == add_namespace(_config, _config_reader, namespace)
       IN  /\ _config' = r.config
           /\ last' = Called("add_namespace", <<PyStr(namespace.name)>>, r.out, r.reads)
    /\ UNCHANGED <<os_environ, reader, pc, _environment, _config_reader, namespace>>

\* config.add_handler with one converter table for all readers
AddHandler_shared(typ, handler) ==
    /\ pc = "ready"
    /\ LET r == add_handler(_config_reader, typ, handler)
       IN  /\ _config_reader' = r.reader
           /\ reader' = IF reader = Absent THEN reader
                         ELSE add_handler(reader, typ, handler).reader
           /\ last' = Called("add_handler", <<typ, handler>>, r.out, 0)
    /\ UNCHANGED <<os_environ, pc, _environment, _config, namespace>>

\* config.add_handler(typ, handler), which is config._config_reader.add_handler
AddHandler(typ, handler) ==
    /\ pc = "ready"
    /\ LET r == add_handler(_config_reader, typ, handler)
       IN  /\ _config_reader' = r.reader
           /\ last' = Called("add_handler", <<typ, handler>>, r.out, 0)
    /\ UNCHANGED <<os_environ, reader, pc, _environment, _config, namespace>>

\* a read_field that counts its calls in the handler counter
ReadField_counts(field_name, typ, default) ==
    /\ pc = "ready"
    /\ last' = Called("read_field", <<field_name, typ, default>>,
                      read_field(_config_reader, field_name, typ, default), 1)
    /\ _config_reader' = [_config_reader EXCEPT !._counter = @ + 1]
    /\ UNCHANGED <<os_environ, reader, pc, _environment, _config, namespace>>

\* config._config_reader.read_field(field_name, typ, default)
ReadField(field_name, typ, default) ==
    /\ pc = "ready"
    /\ last' = Called("read_field", <<field_name, typ, default>>,
                      read_field(_config_reader, field_name, typ, default), 1)
    /\ UNCHANGED <<os_environ, reader, pc, _environment, _config, _config_reader, namespace>>

\* config[key] = value
Config__setitem__(key, value) ==
    /\ pc = "ready"
    /\ last' = Called("Config.__setitem__", <<PyStr(key), value>>, setitem(key, value), 0)
    /\ UNCHANGED <<os_environ, reader, pc, _environment, _config, _config_reader, namespace>>

\* an item assignment that stores the value like a plain dict
ConfigDict__setitem__stores(name, key, value) ==
    /\ pc = "ready"
    /\ name \in DOMAIN _config
    /\ _config' = [_config EXCEPT ![name] = (key :> value) @@ @]
    /\ last' = Called("ConfigDict.__setitem__", <<PyStr(name), PyStr(key), value>>,
                      Return(PyNone), 0)
    /\ UNCHANGED <<os_environ, reader, pc, _environment, _config_reader, namespace>>

\* config[name][key] = value: config[name] is looked up first
ConfigDict__setitem__(name, key, value) ==
    /\ pc = "ready"
    /\ LET found == Config_getitem(_config, name)
       IN  last' = Called("ConfigDict.__setitem__", <<PyStr(name), PyStr(key), value>>,
                          IF found.exc # "none" THEN found ELSE setitem(key, value), 0)
    /\ UNCHANGED <<os_environ, reader, pc, _environment, _config, _config_reader, namespace>>

\* config[namespace_name][field_name]
Lookup(namespace_name, field_name) ==
    /\ pc = "ready"
    /\ LET found == Config_getitem(_config, namespace_name)
       IN  last' = Called("lookup", <<PyStr(namespace_name), PyStr(field_name)>>,
                          IF found.exc # "none" THEN found
                          ELSE ConfigDict_getitem(found.ret.val, field_name), 0)
    /\ UNCHANGED <<os_environ, reader, pc, _environment, _config, _config_reader, namespace>>

\* the "easy_reed" section the package writes into config._config; the
\* strings of the environment are kept as they are in os_environ
PackageSection(environ, environment) ==
    (s_LOG_LEVEL :> PyStr(environment._log_level))
    @@ (s_APP_ENVIRONMENT :> PyStr(environment._app_environment))
    @@ (s_CONFIG_LOCATION :> PyStr(environment._app_config_location))
    @@ (s_LOG_LOCATION :> PyStr(_retrieve_key(environ, "LOG_LOCATION", "")))

\* an import of the package that only builds config = Config()
PackageInit_empty ==
    /\ pc = "new"
    /\ LET environment == Environment(os_environ)
           made == ConfigReader(environment)
       IN  IF made.exc # "none"
             THEN /\ last' = Called("import easy_reed", <<>>, made, 0)
                  /\ UNCHANGED <<pc, _environment, _config, _config_reader>>
             ELSE /\ pc' = "ready"
                  /\ _environment' = environment
                  /\ _config' = <<>>
                  /\ _config_reader' = made.ret
                  /\ last' = Called("import easy_reed", <<>>, Return(PyNone), 0)
    /\ UNCHANGED <<os_environ, reader, namespace>>

\* import easy_reed: config = Config(), then the "easy_reed" section is
\* written straight into config._config
PackageInit ==
    /\ pc = "new"
    /\ LET environment == Environment(os_environ)
           made == ConfigReader(environment)
       IN  IF made.exc # "none"
             THEN /\ last' = Called("import easy_reed", <<>>, made, 0)
                  /\ UNCHANGED <<pc, _environment, _config, _config_reader>>
             ELSE /\ pc' = "ready"
                  /\ _environment' = environment
                  /\ _config' = (s_easy_reed :> PackageSection(os_environ, environment))
                  /\ _config_reader' = made.ret
                  /\ last' = Called("import easy_reed", <<>>, Return(PyNone), 0)
    /\ UNCHANGED <<os_environ, reader, namespace>>

NextPackage ==
    \/ PackageInit
    \/ \E name \in PackageNamespaceNames : NameSpace__init__(name)
    \/ \E e \in PackageEntryInputs : AddEntry(e[1], e[2], e[3])
    \/ AddNamespace
    \/ \E name \in PackageNamespaceNames, key \in {s_LOG_LEVEL, s_test1} : Lookup(name, key)

\* the package-level registry easy_reed.config, in every environment of
\* Environments
SpecPackage == InitReader /\ [][NextPackage]_vars

Next ==
    \/ Config__init__
    \/ \E name \in NamespaceNames : NameSpace__init__(name)
    \/ \E e \in EntryInputs : AddEntry(e[1], e[2], e[3])
    \/ AddNamespace
    \/ \E h \in HandlerInputs : AddHandler(h[1], h[2])
    \/ \E r \in ConfigReadInputs : ReadField(r[1], r[2], r[3])
    \/ \E name \in NamespaceNames : Config__setitem__(name, PyStr(s_fail))
    \/ \E name \in NamespaceNames :
           ConfigDict__setitem__(name, upper(s_test1), PyStr(s_fail))

\* the registry, in the environments of ConfigEnvironments
Spec == Init /\ [][Next]_vars

NextReader ==
    \/ Config__init__
    \/ \E name \in ReaderNamespaceNames : NameSpace__init__(name)
    \/ \E e \in ReaderEntryInputs : AddEntry(e[1], e[2], e[3])
    \/ AddNamespace
    \/ \E h \in HandlerInputs : AddHandler(h[1], h[2])
    \/ \E r \in ReadInputs : ReadField(r[1], r[2], r[3])

\* the reader, in every environment of Environments
SpecReader == InitReader /\ [][NextReader]_vars

NextNameSpace ==
    \/ Config__init__
    \/ \E name \in ReaderNamespaceNames : NameSpace__init__(name)
    \/ \E e \in NameSpaceEntryInputs : AddEntry(e[1], e[2], e[3])

\* the NameSpace a caller builds, with the tests' environment
SpecNameSpace == Init /\ [][NextNameSpace]_vars

\* the program about to call list_converter(element)
InitList ==
    /\ os_environ \in ConfigEnvironments
    /\ pc = "new"
    /\ _environment = Absent
    /\ _config = Absent
    /\ _config_reader = Absent
    /\ namespace = Absent
    /\ reader = Absent
    /\ \E element \in ListInputs : last = Called("start", <<element>>, Return(PyNone), 0)

\* list_converter(element)
ListConverter ==
    /\ last.op = "start"
    /\ Len(last.args) = 1
    /\ last' = Called("list_converter", last.args, list_converter(last.args[1]), 0)
    /\ UNCHANGED <<os_environ, reader, pc, _environment, _config, _config_reader, namespace>>

NextList == ListConverter

\* list_converter on every string of ListInputs
SpecList == InitList /\ [][NextList]_vars

\* reader = ConfigReader(Environment())
ConfigReader__init__ ==
    /\ reader = Absent
    /\ LET made == ConfigReader(Environment(os_environ))
       IN  /\ reader' = IF made.exc = "none" THEN made.ret ELSE reader
           /\ last' = Called("ConfigReader", <<>>,
                             IF made.exc = "none" THEN Return(PyNone) ELSE made, 0)
    /\ UNCHANGED <<os_environ, pc, _environment, _config, _config_reader, namespace>>

\* reader.add_handler(typ, handler)
Reader_add_handler(typ, handler) ==
    /\ reader # Absent
    /\ LET r == add_handler(reader, typ, handler)
       IN  /\ reader' = r.reader
           /\ last' = Called("reader.add_handler", <<typ, handler>>, r.out, 0)
    /\ UNCHANGED <<os_environ, pc, _environment, _config, _config_reader, namespace>>

\* reader.read_field(field_name, typ, default)
Reader_read_field(field_name, typ, default) ==
    /\ reader # Absent
    /\ last' = Called("reader.read_field", <<field_name, typ, default>>,
                      read_field(reader, field_name, typ, default), 1)
    /\ UNCHANGED <<os_environ, pc, _environment, _config, _config_reader, namespace, reader>>

NextInstances ==
    \/ Config__init__
    \/ ConfigReader__init__
    \/ \E h \in HandlerInputs : AddHandler(h[1], h[2])
    \/ \E h \in HandlerInputs : Reader_add_handler(h[1], h[2])
    \/ \E r \in ConfigReadInputs : ReadField(r[1], r[2], r[3])
    \/ \E r \in ConfigReadInputs : Reader_read_field(r[1], r[2], r[3])

\* the reader of a Config next to a ConfigReader of its own
SpecInstances == Init /\ [][NextInstances]_vars

\* config._environment.get_log_level(), get_app_environment() and
\* get_config_location()
Getter(name) ==
    /\ pc = "ready"
    /\ last' = Called(name, <<>>,
                      Return(PyStr(CASE name = "get_log_level" -> _environment._log_level
                                     [] name = "get_app_environment" -> _environment._app_environment
                                     [] name = "get_config_location" -> _environment._app_config_location)),
                      0)
    /\ UNCHANGED <<os_environ, reader, pc, _environment, _config, _config_reader, namespace>>

InitEnvironment == os_environ \in AllEnvironments /\ Start

NextEnvironment ==
    \/ Config__init__
    \/ \E name \in {"get_log_level", "get_app_environment", "get_config_location"} :
           Getter(name)

\* the Environment of a Config, in every process environment
SpecEnvironment == InitEnvironment /\ [][NextEnvironment]_vars

NextTypes ==
    \/ Config__init__
    \/ \E name \in ReaderNamespaceNames : NameSpace__init__(name)
    \/ \E e \in TypeEntryInputs : AddEntry(e[1], e[2], e[3])
    \/ \E h \in ReaderHandlerInputs : AddHandler(h[1], h[2])
    \/ AddNamespace

\* the values add_namespace stores, by the type their field declares
SpecTypes == Init /\ [][NextTypes]_vars

NextKeys ==
    \/ Config__init__
    \/ \E name \in KeyNamespaceNames : NameSpace__init__(name)
    \/ \E e \in KeyEntryInputs : AddEntry(e[1], e[2], e[3])
    \/ AddNamespace

\* the lookup keys of the namespaces a caller registers
SpecKeys == Init /\ [][NextKeys]_vars

NextRegistry ==
    \/ Config__init__
    \/ \E name \in ReaderNamespaceNames : NameSpace__init__(name)
    \/ \E e \in RegistryEntryInputs : AddEntry(e[1], e[2], e[3])
    \/ AddNamespace
    \/ \E name \in NamespaceNames, value \in AssignedValues :
           Config__setitem__(name, value)
    \/ \E name \in NamespaceNames, key \in LookupFields, value \in AssignedValues :
           ConfigDict__setitem__(name, key, value)
    \/ \E name \in LookupNames, key \in LookupFields : Lookup(name, key)

\* lookups and item assignments on the registry
SpecRegistry == Init /\ [][NextRegistry]_vars

NextHandler ==
    \/ Config__init__
    \/ \E h \in ReaderHandlerInputs : AddHandler(h[1], h[2])
    \/ \E r \in HandlerReadInputs : ReadField(r[1], r[2], r[3])

\* the converter table, in every environment of Environments
SpecHandler == InitReader /\ [][NextHandler]_vars

(***************************************************************************)
(* What the file itself says, read off its lines without the parser        *)
(***************************************************************************)
ConfigLocation == Environment(os_environ)._app_config_location

ReportedEnvironment == Environment(os_environ)._app_environment

FileLines == IF ConfigLocation \in DOMAIN FileSystem THEN FileSystem[ConfigLocation] ELSE <<>>

FileHasSection(section) == \E i \in DOMAIN FileLines : FileLines[i].section = section

\* the file gives `key` (in any letter case) under the header [section]
FileHasKey(section, key) ==
    \E i \in DOMAIN FileLines :
        FileLines[i].section = section /\ lower(FileLines[i].key) = lower(key)

FileValue(section, key) ==
    LET i == CHOOSE j \in DOMAIN FileLines :
                 FileLines[j].section = section /\ lower(FileLines[j].key) = lower(key)
    IN  FileLines[i].value

\* the call recorded in `last` passed validation and asked for a type that has
\* a converter
ReadResolves(call) ==
    /\ call.op = "read_field"
    /\ validate_entry(call.args[1], call.args[2], call.args[3]).exc = "none"
    /\ call.args[2].val \in DOMAIN _config_reader._converters

EntryNames(ns) == {ns.entries[i][1].val : i \in DOMAIN ns.entries}

(***************************************************************************)
(* Claims                                                                  *)
(***************************************************************************)

\* C1 (as claimed): every add_namespace call either succeeds, leaving the
\* namespace registered with every declared field, or raises with the
\* registry exactly as before, and it raises only for a duplicate name.
C1_AtomicRegistration ==
    [][AddNamespace =>
         \/ /\ last'.exc = "none"
            /\ namespace.name \in DOMAIN _config'
            /\ DOMAIN _config'[namespace.name] = EntryNames(namespace)
         \/ /\ last'.exc # "none"
            /\ _config' = _config
            /\ namespace.name \in DOMAIN _config]_vars

\* C2: add_namespace with a name that is already registered raises ValueError,
\* reads no field and leaves the whole registry as it was.
C2_DuplicateNamespace ==
    [][(AddNamespace /\ namespace.name \in DOMAIN _config) =>
         /\ last'.exc = "ValueError"
         /\ last'.reads = 0
         /\ _config' = _config]_vars

C2_Witness ==
    /\ last.op = "add_namespace"
    /\ last.exc = "ValueError"
    /\ namespace.name \in DOMAIN _config
    /\ upper(s_test1) \in DOMAIN _config[namespace.name]
    /\ upper(s_guts) \notin EntryNames(namespace)
    /\ upper(s_guts) \in DOMAIN _config[namespace.name]

\* C3: when the getter of the requested type raises (the converter rejects
\* the value, or the value cannot be interpolated) read_field returns exactly
\* the supplied default; read_field raises only what validation raises, or
\* TypeError for a type without a converter.
C3_NeverPropagates ==
    last.op = "read_field" =>
        LET field_name == last.args[1]
            typ == last.args[2]
            default == last.args[3]
            valid == validate_entry(field_name, typ, default)
        IN  /\ ( /\ ReadResolves(last)
                 /\ getter(_config_reader._configparser,
                           _config_reader._converters[typ.val],
                           _config_reader._app_environment,
                           field_name.val, default).exc # "none" )
               => (last.exc = "none" /\ last.ret = default)
            /\ last.exc # "none" =>
                 \/ valid.exc # "none" /\ last.exc = valid.exc
                 \/ /\ valid.exc = "none"
                    /\ typ.val \notin DOMAIN _config_reader._converters
                    /\ last.exc = "TypeError"

C3_Witness ==
    /\ last.op = "read_field"
    /\ last.args = <<PyStr(<<"t","e","s","t",".","b","a","d">>), PyType("Person"), Person(s_Failure, -1)>>
    /\ "Person" \in DOMAIN _config_reader._converters
    /\ FileHasKey(_config_reader._app_environment, <<"t","e","s","t",".","b","a","d">>)
    /\ last.exc = "none"
    /\ last.ret = Person(s_Failure, -1)

\* C4: after a successful add_namespace(ns) the registry holds, for every
\* entry (F, type, default) of ns, under ns.name and F the value
\* read_field("{ns.name}.{F}", type, default) returns; with the tests' file
\* and section [local], registry["test"]["TEST1"] is "local1".
C4_RegistryHoldsReadValues ==
    [][(AddNamespace /\ last'.exc = "none") =>
         /\ namespace.name \in DOMAIN _config'
         /\ \A i \in DOMAIN namespace.entries :
              LET entry == namespace.entries[i]
                  key == PyStr(namespace.name \o <<".">> \o entry[1].val)
              IN  /\ entry[1].val \in DOMAIN _config'[namespace.name]
                  /\ Return(_config'[namespace.name][entry[1].val])
                       = read_field(_config_reader, key, entry[2], entry[3])
         /\ ( /\ _config_reader._app_environment = "local"
              /\ namespace.name = s_test
              /\ upper(s_test1) \in EntryNames(namespace) )
            => _config'[s_test][upper(s_test1)] = PyStr(<<"l","o","c","a","l","1">>)]_vars

C4_Witness ==
    /\ last.op = "add_namespace"
    /\ last.exc = "none"
    /\ _config_reader._app_environment = "local"
    /\ s_test \in DOMAIN _config
    /\ upper(s_test1) \in DOMAIN _config[s_test]
    /\ _config[s_test][upper(s_test1)] = PyStr(<<"l","o","c","a","l","1">>)

C7_WriteOnce ==
    [][pc = "ready" =>
         \A n \in DOMAIN _config :
            /\ n \in DOMAIN _config'
            /\ \A F \in DOMAIN _config[n] :
                 /\ F \in DOMAIN _config'[n]
                 /\ _config'[n][F] = _config[n][F]]_vars

C7_Witness ==
    /\ last.op = "ConfigDict.__setitem__"
    /\ last.args = <<PyStr(s_test), PyStr(upper(s_test1)), PyStr(s_fail)>>
    /\ last.exc = "ValueError"
    /\ upper(s_test1) \in DOMAIN _config[s_test]
    /\ _config[s_test][upper(s_test1)] # PyStr(s_fail)

\* some entry of the namespace declares a type that has no converter
HasUnhandledType(ns) ==
    \E i \in DOMAIN ns.entries : ns.entries[i][2].val \notin DOMAIN _config_reader._converters

\* C8 (as claimed): add_namespace raises TypeError whenever a field of the
\* namespace declares a type without a converter.
C8_UnhandledTypeRaises ==
    [][(AddNamespace /\ HasUnhandledType(namespace)) => last'.exc = "TypeError"]_vars

\* C8 (amended): add_namespace of a name that is not yet registered raises
\* TypeError when some field declares a type without a converter, and succeeds
\* when every declared type has one.
C8_UnhandledTypeRaisesUnlessDuplicate ==
    [][(AddNamespace /\ namespace.name \notin DOMAIN _config) =>
         IF HasUnhandledType(namespace)
           THEN last'.exc = "TypeError"
           ELSE last'.exc = "none"]_vars

C8_Witness ==
    /\ last.op = "add_namespace"
    /\ last.exc = "TypeError"
    /\ HasUnhandledType(namespace)
    /\ last.reads = Len(namespace.entries)

\* C9: from construction on, the reader's active section is the reported
\* environment when the file has a section of that name and DEFAULT otherwise,
\* after any read_field, add_handler and add_namespace call; in dev, qa and
\* prod the key test.test1 resolves to that section's own value.
C9_ActiveSectionFixed ==
    pc = "ready" =>
        /\ _config_reader._app_environment =
               IF FileHasSection(ReportedEnvironment) THEN ReportedEnvironment ELSE "DEFAULT"
        /\ ( /\ last.op = "read_field"
             /\ last.args = <<PyStr(<<"t","e","s","t",".","t","e","s","t","1">>), PyType("str"), PyStr(s_fail)>>
             /\ ReportedEnvironment \in {"dev", "qa", "prod"}
             /\ FileHasSection(ReportedEnvironment) )
           => last.ret = PyStr(CASE ReportedEnvironment = "dev" -> <<"d","e","v","1">>
                                 [] ReportedEnvironment = "qa" -> <<"q","a","1">>
                                 [] ReportedEnvironment = "prod" -> <<"p","r","o","d","1">>)

C9_Witness ==
    /\ pc = "ready"
    /\ ReportedEnvironment = "none"
    /\ _config_reader._app_environment = "DEFAULT"
    /\ FileHasSection("local")
    /\ _config_reader._counter > 0
    /\ s_test \in DOMAIN _config
    /\ last.op = "read_field"

\* C10: with a config-file path that does not exist Config() does not raise,
\* the active section is DEFAULT, and every valid read of a type that has a
\* converter returns the supplied default.
C10_MissingFile ==
    ConfigLocation \notin DOMAIN FileSystem =>
        /\ last.op = "Config" => (last.exc = "none" /\ pc = "ready")
        /\ pc = "ready" => _config_reader._app_environment = "DEFAULT"
        /\ ReadResolves(last) => (last.exc = "none" /\ last.ret = last.args[3])

C10_Witness ==
    /\ ConfigLocation \notin DOMAIN FileSystem
    /\ last.op = "read_field"
    /\ last.args = <<PyStr(<<"t","e","s","t",".","d","e","f","a","u","l","t">>), PyType("str"), PyStr(s_fail)>>
    /\ last.exc = "none"
    /\ last.ret = PyStr(s_fail)

\* C11: read_field first validates (field_name, typ, default) as add_entry
\* does and raises the error add_entry raises for them; when they are valid
\* and typ has no converter it raises TypeError and does not return the
\* default.
C11_ValidatesThenRequiresConverter ==
    [][\A r \in ReadInputs :
         ReadField(r[1], r[2], r[3]) =>
           LET added == add_entry(NameSpace(s_test), r[1], r[2], r[3]).out
           IN  IF added.exc # "none"
                 THEN last'.exc = added.exc /\ last'.why = added.why
               ELSE IF r[2].val \notin DOMAIN _config_reader._converters
                 THEN /\ last'.exc = "TypeError"
                      /\ last'.why = "ERROR: No handler exists to convert strings into type"
               ELSE last'.exc = "none"]_vars

C11_Witness ==
    /\ last.op = "read_field"
    /\ last.args = <<PyStr(<<"t","e","s","t",".","t","e","s","t","1">>), PyType("int"), PyStr(s_fail)>>
    /\ "int" \in DOMAIN _config_reader._converters
    /\ FileHasKey(_config_reader._app_environment, <<"t","e","s","t",".","t","e","s","t","1">>)
    /\ last.exc = "TypeError"
    /\ last.why = "default should be of the type specified by typ"

\* C12 (as claimed): add_entry of a field name the NameSpace already holds, in
\* any letter case and with any type and default, raises ValueError and
\* leaves the entries as they were.
C12_DuplicateFieldAnyArguments ==
    [][\A e \in NameSpaceEntryInputs :
         ( /\ AddEntry(e[1], e[2], e[3])
           /\ e[1].kind = "str"
           /\ upper(e[1].val) \in EntryNames(namespace) )
         => (last'.exc = "ValueError" /\ namespace'.entries = namespace.entries)]_vars

\* C12 (amended): add_entry of a field name the NameSpace already holds, in
\* any letter case and with any type and default that pass validation, raises
\* the duplicate-field ValueError and leaves the entries as they were; with a
\* type or default that fails validation it raises the validation error, and
\* the entries are as they were too.
C12_DuplicateField ==
    [][\A e \in NameSpaceEntryInputs :
         ( /\ AddEntry(e[1], e[2], e[3])
           /\ e[1].kind = "str"
           /\ upper(e[1].val) \in EntryNames(namespace) )
         => /\ namespace'.entries = namespace.entries
            /\ IF e[2].kind = "type" /\ isinstance(e[3], e[2])
                 THEN /\ last'.exc = "ValueError"
                      /\ last'.why = "config field already exists inside of namespace"
                 ELSE last'.exc = "TypeError"]_vars

C12_Witness ==
    /\ last.op = "add_entry"
    /\ last.args = <<PyStr(<<"T","e","s","t","1">>), PyType("int"), PyInt(0)>>
    /\ last.exc = "ValueError"
    /\ last.why = "config field already exists inside of namespace"
    /\ namespace.entries = << <<PyStr(upper(s_test1)), PyType("str"), PyStr(s_fail)>> >>

\* the field name with its first letter in the other case
SwapFirstCase(name) ==
    <<IF Occurs(Lowers, name[1]) THEN upper_char(name[1]) ELSE lower_char(name[1])>>
        \o Tail(name)

\* C13: add_entry of a valid (name, type, default), default an instance of
\* type, whose name the NameSpace does not hold appends exactly the entry
\* (name.upper(), type, default) at the end, returns it, and has_field is
\* then true for the name in any letter case.
C13_AddEntryAppends ==
    [][\A e \in NameSpaceEntryInputs :
         ( /\ AddEntry(e[1], e[2], e[3])
           /\ e[1].kind = "str" /\ e[1].val # <<>>
           /\ e[2].kind = "type" /\ isinstance(e[3], e[2])
           /\ upper(e[1].val) \notin EntryNames(namespace) )
         => LET entry == <<PyStr(upper(e[1].val)), e[2], e[3]>>
            IN  /\ last'.exc = "none"
                /\ last'.ret.val = entry
                /\ namespace'.entries = Append(namespace.entries, entry)
                /\ \A name \in {e[1].val, upper(e[1].val), lower(e[1].val),
                                 SwapFirstCase(e[1].val)} :
                       has_field(namespace', PyStr(name))]_vars

C13_Witness ==
    /\ last.op = "add_entry"
    /\ last.args = <<PyStr(<<"f","l","a","g">>), PyType("int"), PyBool(TRUE)>>
    /\ last.exc = "none"
    /\ Len(namespace.entries) = 2
    /\ namespace.entries[2] = <<PyStr(<<"F","L","A","G">>), PyType("int"), PyBool(TRUE)>>
    /\ has_field(namespace, PyStr(<<"F","l","a","g">>))

\* C14: add_entry checks, in this order, that field_name is a string
\* (TypeError), that it is not empty (ValueError), that typ is a type
\* (TypeError) and that default is an instance of typ (TypeError); the first
\* rule broken decides the error, also when the NameSpace holds the name
\* already, and the entries are as they were.
C14_ValidationOrder ==
    [][\A e \in NameSpaceEntryInputs :
         AddEntry(e[1], e[2], e[3]) =>
           LET broken ==
                 IF e[1].kind # "str"
                   THEN <<"TypeError", "a config field_name must be of type string">>
                 ELSE IF e[1].val = <<>>
                   THEN <<"ValueError", "a config field_name must not be empty">>
                 ELSE IF e[2].kind # "type"
                   THEN <<"TypeError", "typ should be a type">>
                 ELSE IF ~isinstance(e[3], e[2])
                   THEN <<"TypeError", "default should be of the type specified by typ">>
                 ELSE <<"none", "">>
           IN  IF broken[1] # "none"
                 THEN /\ last'.exc = broken[1]
                      /\ last'.why = broken[2]
                      /\ namespace' = namespace
                 ELSE last'.why \in {"", "config field already exists inside of namespace"}]_vars

C14_Witness ==
    /\ last.op = "add_entry"
    /\ last.args = <<PyStr(<<>>), PyStr(<<"s","t","r">>), PyInt(0)>>
    /\ last.exc = "ValueError"
    /\ last.why = "a config field_name must not be empty"
    /\ Len(namespace.entries) = 1

\* C15: add_handler for a type that has a converter already, built in or
\* registered before, raises ValueError and leaves the reader's converter
\* table as it was, so that every read gives what it gave before.
C15_HandlerRegisteredOnce ==
    [][\A h \in ReaderHandlerInputs :
         ( /\ AddHandler(h[1], h[2])
           /\ h[1].kind = "type"
           /\ h[1].val \in DOMAIN _config_reader._converters )
         => /\ last'.exc = "ValueError"
            /\ _config_reader'._converters = _config_reader._converters
            /\ _config_reader'._configparser.converters
                  = _config_reader._configparser.converters
            /\ \A r \in HandlerReadInputs :
                  read_field(_config_reader', r[1], r[2], r[3])
                    = read_field(_config_reader, r[1], r[2], r[3])]_vars

C15_Witness ==
    /\ last.op = "add_handler"
    /\ last.args = <<PyType("Person"), PyFunction("list_converter")>>
    /\ last.exc = "ValueError"
    /\ _config_reader._app_environment = "local"
    /\ _config_reader._configparser.converters[_config_reader._converters["Person"]]
         = PyFunction("parse_person")
    /\ read_field(_config_reader, PyStr(<<"t","e","s","t",".","g","u","t","s">>),
                  PyType("Person"), Person(s_None, -1)) = Return(Person(s_guts, 24))

\* C16: add_handler raises TypeError when typ is no type, else ValueError
\* when typ has a converter, else TypeError when the handler is not callable;
\* the first of these that applies decides, and a call that raises leaves the
\* converter table and the counter as they were.
C16_AddHandlerErrors ==
    [][\A h \in ReaderHandlerInputs :
         AddHandler(h[1], h[2]) =>
           LET broken ==
                 IF h[1].kind # "type"
                   THEN <<"TypeError", "the typ parameter must specify the type that the handler Converts to">>
                 ELSE IF h[1].val \in DOMAIN _config_reader._converters
                   THEN <<"ValueError", "A handler for type already exists inside of the ConfigReader">>
                 ELSE IF h[2].kind \notin {"function", "type"}
                   THEN <<"TypeError", "the handler parameter must be a Callable">>
                 ELSE <<"none", "">>
           IN  /\ last'.exc = broken[1]
               /\ last'.why = broken[2]
               /\ broken[1] # "none" => _config_reader' = _config_reader]_vars

C16_Witness ==
    /\ last.op = "add_handler"
    /\ last.args = <<PyType("int"), PyStr(s_None)>>
    /\ last.exc = "ValueError"
    /\ _config_reader._counter = 1

\* the handler add_handler has stored for the type of the read in `call`
StoredHandler(call) ==
    _config_reader._configparser.converters[_config_reader._converters[call.args[2].val]]

\* the read in `call` asks for a type add_handler has registered, and the file
\* gives its key in the active section
ReadsRegisteredType(call) ==
    /\ ReadResolves(call)
    /\ call.args[2].val \notin DOMAIN BuiltinConverters
    /\ FileHasKey(_config_reader._app_environment, call.args[1].val)

\* C17 (as claimed): a successful add_handler(T, f) returns the converter now
\* stored for T, and every later read_field of type T whose key the active
\* section gives returns f applied to the key's string in the file.
C17_HandlerAppliedToRawString ==
    /\ (last.op = "add_handler" /\ last.exc = "none") =>
          /\ last.ret.val = _config_reader._converters[last.args[1].val]
          /\ _config_reader._configparser.converters[last.ret.val] = last.args[2]
    /\ ReadsRegisteredType(last) =>
          Return(last.ret) =
            Call(StoredHandler(last),
                 PyStr(strip(FileValue(_config_reader._app_environment, last.args[1].val))))

\* C17 (amended): a successful add_handler(T, f) returns the converter now
\* stored for T, and every later read_field of type T whose key the active
\* section gives returns f applied to the key's string after the parser's
\* % interpolation when f returns a value, and the default when f raises or
\* the string cannot be interpolated.
C17_HandlerAppliedOrDefault ==
    /\ (last.op = "add_handler" /\ last.exc = "none") =>
          /\ last.ret.val = _config_reader._converters[last.args[1].val]
          /\ _config_reader._configparser.converters[last.ret.val] = last.args[2]
    /\ ReadsRegisteredType(last) =>
          LET raw == strip(FileValue(_config_reader._app_environment, last.args[1].val))
              value == IF Occurs(raw, "%")
                         THEN get_nofallback(_config_reader._configparser,
                                             _config_reader._app_environment,
                                             last.args[1].val)
                         ELSE Return(PyStr(raw))
              applied == IF value.exc = "none" THEN Call(StoredHandler(last), value.ret)
                         ELSE value
          IN  /\ last.exc = "none"
              /\ last.ret = IF applied.exc = "none" THEN applied.ret ELSE last.args[3]

C17_Witness ==
    /\ last.op = "read_field"
    /\ last.args = <<PyStr(<<"t","e","s","t",".","c","a","s","c","a">>), PyType("Person"), Person(s_None, -1)>>
    /\ _config_reader._app_environment = "local"
    /\ "Person" \in DOMAIN _config_reader._converters
    /\ StoredHandler(last) = PyFunction("parse_person")
    /\ last.ret = Person(<<"c","a","s","c","a">>, 24)

\* C18: registry[namespace_name][FIELD_NAME] raises the namespace KeyError
\* when the name is not registered, taken letter for letter, and the field
\* KeyError when the namespace is registered without the field, taken
\* upper-cased; otherwise it gives the stored value.
C18_Lookup ==
    last.op = "lookup" =>
        LET namespace_name == last.args[1].val
            FIELD_NAME == last.args[2].val
        IN  IF namespace_name \notin DOMAIN _config
              THEN /\ last.exc = "KeyError"
                   /\ last.why = "is not a namespace in the Config dictionary"
            ELSE IF \A F \in DOMAIN _config[namespace_name] : lower(F) # lower(FIELD_NAME)
              THEN /\ last.exc = "KeyError"
                   /\ last.why = "is missing from the config"
            ELSE /\ last.exc = "none"
                 /\ \E F \in DOMAIN _config[namespace_name] :
                       /\ lower(F) = lower(FIELD_NAME)
                       /\ last.ret = _config[namespace_name][F]

C18_Witness ==
    /\ last.op = "lookup"
    /\ last.args = <<PyStr(upper(s_test)), PyStr(s_test1)>>
    /\ s_test \in DOMAIN _config
    /\ Config_getitem(_config, s_test).exc = "none"
    /\ ConfigDict_getitem(_config[s_test], s_test1).exc = "none"
    /\ last.exc = "KeyError"
    /\ last.why = "is not a namespace in the Config dictionary"

\* C19 (as claimed): every item assignment, config[ns] = v and
\* config[ns][FIELD] = v, for any key and value, raises ValueError and leaves
\* the registry as it was.
C19_AssignmentRaisesValueError ==
    [][\A name \in NamespaceNames, key \in LookupFields, value \in AssignedValues :
         (Config__setitem__(name, value) \/ ConfigDict__setitem__(name, key, value))
         => (last'.exc = "ValueError" /\ _config' = _config)]_vars

\* C19 (amended): config[ns] = v raises ValueError for any ns and v;
\* config[ns][FIELD] = v raises ValueError for a registered ns, any FIELD and
\* any v, and the namespace KeyError for an ns that is not registered; none
\* of them changes the registry.
C19_AssignmentRefused ==
    [][\A name \in NamespaceNames, key \in LookupFields, value \in AssignedValues :
         /\ Config__setitem__(name, value)
              => (last'.exc = "ValueError" /\ _config' = _config)
         /\ ConfigDict__setitem__(name, key, value)
              => /\ _config' = _config
                 /\ last'.exc = IF name \in DOMAIN _config THEN "ValueError" ELSE "KeyError"]_vars

C19_Witness ==
    /\ last.op = "ConfigDict.__setitem__"
    /\ last.args = <<PyStr(s_test), PyStr(s_test3), PyInt(0)>>
    /\ last.exc = "ValueError"
    /\ s_test \in DOMAIN _config
    /\ upper(s_test3) \notin DOMAIN _config[s_test]
    /\ upper(s_test1) \in DOMAIN _config[s_test]

\* C20 (as claimed): list_converter accepts a string exactly when the string
\* without its surrounding whitespace starts with '[' and ends with ']', and
\* raises ValueError for every other string, the empty and the
\* whitespace-only ones included.
C20_ListLiteral ==
    last.op = "list_converter" =>
        LET value == strip(last.args[1].val)
        IN  IF value # <<>> /\ value[1] = "[" /\ value[Len(value)] = "]"
              THEN last.exc = "none"
              ELSE last.exc = "ValueError"

\* the elements between the commas of `interior`, in order: an element ends
\* at the first comma, and the rest follows it
RECURSIVE CommaSeparated(_)
CommaSeparated(interior) ==
    IF ~Occurs(interior, ",") THEN <<interior>>
    ELSE LET p == FirstIndex(interior, ",")
         IN  <<SubSeq(interior, 1, p - 1)>>
               \o CommaSeparated(SubSeq(interior, p + 1, Len(interior)))

\* C21 (as claimed): on a string that, trimmed, starts with '[' and ends with
\* ']', list_converter returns the strings between the commas of the
\* interior, each trimmed, in order ("[1, 2, 3]" gives ["1", "2", "3"]), and
\* the empty sequence when the interior is empty or whitespace only.
C21_ListElements ==
    (last.op = "list_converter" /\ last.exc = "none") =>
        LET value == strip(last.args[1].val)
            interior == SubSeq(value, 2, Len(value) - 1)
            elements == CommaSeparated(interior)
        IN  /\ last.ret.kind = "list"
            /\ last.ret.val =
                  IF strip(interior) = <<>> THEN <<>>
                  ELSE [i \in 1..Len(elements) |-> strip(elements[i])]
            /\ last.args[1].val = <<"[","1",","," ","2",","," ","3","]">>
                  => last.ret.val = << <<"1">>, <<"2">>, <<"3">> >>

\* C22 (as claimed): no NameSpace object has a name that contains '.', and
\* no key of the registry contains '.'.
C22_NoSeparatorInNames ==
    /\ namespace # Absent => ~Occurs(namespace.name, ".")
    /\ \A name \in DOMAIN _config : ~Occurs(name, ".")

\* the (namespace name, field name) pairs the registry holds
RegisteredFields ==
    UNION { {<<name, F>> : F \in DOMAIN _config[name]} : name \in DOMAIN _config }

\* C26 (as claimed): two different (namespace name, field name) pairs of the
\* registry never have the same lookup key "{namespace}.{FIELD}", neither as
\* written nor as the parser matches it against the file, so that no file
\* entry feeds two registry fields.
C26_DistinctLookupKeys ==
    \A p, q \in RegisteredFields :
        p # q =>
          /\ field_key(p[1], <<PyStr(p[2])>>) # field_key(q[1], <<PyStr(q[2])>>)
          /\ lower(field_key(p[1], <<PyStr(p[2])>>).val)
               # lower(field_key(q[1], <<PyStr(q[2])>>).val)

\* the read of a Person the tests make
PersonRead == <<PyStr(<<"t","e","s","t",".","g","u","t","s">>), PyType("Person"), Person(s_None, -1)>>

\* C23: a successful add_handler(T, f) on the reader of a Config leaves a
\* ConfigReader constructed apart from it as it was, and the other way round:
\* the other instance, when it had no converter for T, still raises TypeError
\* for a read of T and accepts add_handler(T, f) itself.
C23_HandlersPerInstance ==
    [][\A h \in HandlerInputs :
         /\ (AddHandler(h[1], h[2]) /\ last'.exc = "none" /\ reader # Absent) =>
              /\ reader' = reader
              /\ h[1].val \notin DOMAIN reader._converters =>
                   /\ read_field(reader', PersonRead[1], h[1], PersonRead[3]).exc = "TypeError"
                   /\ add_handler(reader', h[1], h[2]).out.exc = "none"
         /\ (Reader_add_handler(h[1], h[2]) /\ last'.exc = "none" /\ pc = "ready") =>
              /\ _config_reader' = _config_reader
              /\ h[1].val \notin DOMAIN _config_reader._converters =>
                   /\ read_field(_config_reader', PersonRead[1], h[1], PersonRead[3]).exc
                        = "TypeError"
                   /\ add_handler(_config_reader', h[1], h[2]).out.exc = "none"]_vars

C23_Witness ==
    /\ last.op = "reader.add_handler"
    /\ last.args = <<PyType("Person"), PyFunction("parse_person")>>
    /\ last.exc = "none"
    /\ pc = "ready"
    /\ "Person" \in DOMAIN _config_reader._converters
    /\ "Person" \in DOMAIN reader._converters
    /\ _config_reader._counter = 1
    /\ reader._counter = 1

\* the value the process environment gives a variable, or the default
SetOr(key, default) == IF key \in DOMAIN os_environ THEN os_environ[key] ELSE default

\* C24: whichever of LOG_LEVEL, APP_ENVIRONMENT and CONFIG_LOCATION are set,
\* each getter of Environment returns its variable's value when it is set and
\* its own default ("DEBUG", "local", "properties_config.ini") when it is not;
\* a LOG_LEVEL that is no level name is returned as it is.
C24_EnvironmentDefaults ==
    /\ last.op = "Config" => last.exc = "none"
    /\ last.op = "get_log_level" => last.ret = PyStr(SetOr("LOG_LEVEL", "DEBUG"))
    /\ last.op = "get_app_environment" => last.ret = PyStr(SetOr("APP_ENVIRONMENT", "local"))
    /\ last.op = "get_config_location"
         => last.ret = PyStr(SetOr("CONFIG_LOCATION", "properties_config.ini"))

C24_Witness ==
    /\ last.op = "get_log_level"
    /\ DOMAIN os_environ = {"LOG_LEVEL", "CONFIG_LOCATION"}
    /\ os_environ["LOG_LEVEL"] = "test"
    /\ os_environ["LOG_LEVEL"] \notin LogLevels
    /\ last.ret = PyStr("test")
    /\ _environment._app_environment = "local"

\* C25 (as claimed): every value add_namespace stores for a field declared
\* with type T is an instance of T, whether a built-in converter, a handler
\* registered for T or the declared default gave it.
C25_StoredValuesTyped ==
    [][(AddNamespace /\ namespace.name \notin DOMAIN _config) =>
         \A i \in DOMAIN namespace.entries :
            LET entry == namespace.entries[i]
            IN  entry[1].val \in DOMAIN _config'[namespace.name]
                  => isinstance(_config'[namespace.name][entry[1].val], entry[2])]_vars

\* C25 (amended): a value add_namespace stores for a field declared with type
\* T is an instance of T when T has a built-in converter and when the value
\* is the declared default; for a T with a registered handler it is the
\* default or what the handler returned for the string read, of whatever type
\* that is (parse_person returns a Person).
C25_StoredValuesTypedByBuiltins ==
    [][(AddNamespace /\ namespace.name \notin DOMAIN _config) =>
         \A i \in DOMAIN namespace.entries :
            LET entry == namespace.entries[i]
                typ == entry[2]
                key == namespace.name \o <<".">> \o entry[1].val
                section == _config_reader._app_environment
            IN  entry[1].val \in DOMAIN _config'[namespace.name] =>
                  LET value == _config'[namespace.name][entry[1].val]
                      handler == _config_reader._configparser.converters[
                                     _config_reader._converters[typ.val]]
                  IN  IF typ.val \in DOMAIN BuiltinConverters \/ value = entry[3]
                        THEN isinstance(value, typ)
                      ELSE /\ FileHasKey(section, key)
                           /\ Return(value) = Call(handler, PyStr(strip(FileValue(section, key))))
                           /\ handler = PyFunction("parse_person") => isinstance(value, typ)]_vars

C25_Witness ==
    /\ last.op = "add_namespace"
    /\ last.exc = "none"
    /\ _config_reader._app_environment = "local"
    /\ namespace.entries = << <<PyStr(<<"P","O","R","T">>), PyType("int"), PyInt(0)>>,
                               <<PyStr(upper(s_guts)), PyType("Person"), Person(s_None, -1)>> >>
    /\ _config[namespace.name][<<"P","O","R","T">>] = PyInt(80)
    /\ _config[namespace.name][upper(s_guts)] = Person(s_guts, 24)

\* C27: read_field is a pure query: whether it returns a converted value,
\* returns the default or raises, the converter table, the handler counter
\* and the active section are as before, and the same read made again right
\* after gives the same outcome.
C27_ReadFieldIsPure ==
    [][\A r \in HandlerReadInputs :
          ReadField(r[1], r[2], r[3]) =>
            /\ _config_reader'._converters = _config_reader._converters
            /\ _config_reader'._counter = _config_reader._counter
            /\ _config_reader'._app_environment = _config_reader._app_environment
            /\ _config_reader'._configparser = _config_reader._configparser
            /\ LET again == read_field(_config_reader', r[1], r[2], r[3])
               IN  /\ last'.exc = again.exc
                   /\ last'.ret = again.ret]_vars

C27_Witness ==
    /\ last.op = "read_field"
    /\ last.exc = "none"
    /\ last.ret = Person(s_guts, 24)
    /\ _config_reader._counter = 1
    /\ _config_reader._app_environment = "local"

\* C28: once the package is imported its registry holds a namespace
\* "easy_reed" with the fields LOG_LEVEL, APP_ENVIRONMENT, CONFIG_LOCATION and
\* LOG_LOCATION, taken from the environment and not read by add_namespace, so
\* add_namespace of a NameSpace named "easy_reed" always fails with the
\* duplicate-namespace ValueError and changes nothing.
C28_PackageNamespace ==
    [][/\ pc' = "ready" =>
            /\ s_easy_reed \in DOMAIN _config'
            /\ _config'[s_easy_reed] = PackageSection(os_environ, Environment(os_environ))
            /\ DOMAIN _config'[s_easy_reed] =
                   {s_LOG_LEVEL, s_APP_ENVIRONMENT, s_CONFIG_LOCATION, s_LOG_LOCATION}
       /\ PackageInit => last'.op = "import easy_reed" /\ last'.reads = 0
       /\ (AddNamespace /\ namespace.name = s_easy_reed) =>
            /\ last'.exc = "ValueError"
            /\ last'.reads = 0
            /\ _config' = _config]_vars

C28_Witness ==
    /\ last.op = "add_namespace"
    /\ last.exc = "ValueError"
    /\ namespace.name = s_easy_reed
    /\ Len(namespace.entries) = 1
    /\ DOMAIN _config = {s_easy_reed, s_test}
    /\ _config[s_easy_reed][s_LOG_LEVEL] = PyStr("test")

====
